---- MODULE Spec2Model ----
(***************************************************************************)
(* NOAA climate connector: the orchestrator (main.py) and its three        *)
(* processors (global temperature anomalies, regional climate summaries,   *)
(* US precipitation), with the State Store, the remote service and the     *)
(* sink as external collaborators.                                         *)
(*                                                                         *)
(* Strings are sequences of one-character strings, so that formatting a    *)
(* date, comparing two period keys and sorting year keys are computed the  *)
(* way Python computes them.  Numbers of the remote series are integers    *)
(* in thousandths of the unit (0.001 degree, 0.001 inch).                  *)
(***************************************************************************)
EXTENDS Integers, Sequences, FiniteSets, TLC

VARIABLES
    clock,        \* datetime.now(): [y, m, d]
    ticks,        \* number of day changes so far
    runs,         \* number of main() runs started
    pc,           \* orchestrator position in main()
    cur,          \* index in Pipeline of the processor main() is at
    ppc,          \* position inside the running processor
    state,        \* State Store: dataset name -> Run State
    last_update,  \* local: state.get("last_update")
    period,       \* local: today / current_month
    current_timestamp, \* local: datetime.now() taken after the gate
    cursor,       \* loop position [r, s, p] in regions x surface_types x periods
    data,         \* local: last response body of the loop
    stats,        \* local: last result of calculate_trend_statistics
    precip_data,  \* local of process_precipitation_data
    temp_data,    \* local of process_precipitation_data
    records,      \* local: the accumulating record list
    table,        \* table returned by the processor main() last called
    service,      \* what the remote service holds, for the whole behaviour
    fetchLog,     \* remote calls of this invocation: <<[combo, status]>>
    loads,        \* load_state calls of this invocation
    saves,        \* save_state calls of this invocation
    gated,        \* this invocation took the gate's early return
    gateAt,       \* the clock when this invocation evaluated its gate
    returned,     \* num_rows of the tables returned to main() in this run
    stateAtStart, \* state as it was when this invocation began
    lastDone,     \* dataset -> date of the gate of its last completed invocation
    invoked,      \* processors main() called in this run, in order
    uploads       \* upload_data calls of this run: <<[name, rows, ok]>>

vars == <<clock, ticks, runs, pc, cur, ppc, state, last_update, period,
          current_timestamp, cursor,
          data, stats, precip_data, temp_data, records, table, service,
          fetchLog, loads, saves, gated, gateAt, returned, stateAtStart,
          lastDone, invoked, uploads>>

-----------------------------------------------------------------------------
(* Bounds of the model *)

MaxTicks == 2
MaxRuns == 2
MaxYears == 3
MaxPrecipYears == 2
MaxTempYears == 1

-----------------------------------------------------------------------------
(* Python values *)

None == <<"None">>
NoCount == 0 - 1

DigitChar == <<"0", "1", "2", "3", "4", "5", "6", "7", "8", "9">>
DigitVal(c) == CHOOSE n \in 0..9 : DigitChar[n + 1] = c
Ord(c) == IF c = "-" THEN 45 ELSE 48 + DigitVal(c)

RECURSIVE StrLess(_, _)
StrLess(a, b) ==
    IF a = <<>> THEN b # <<>>
    ELSE IF b = <<>> THEN FALSE
    ELSE IF Ord(Head(a)) # Ord(Head(b)) THEN Ord(Head(a)) < Ord(Head(b))
    ELSE StrLess(Tail(a), Tail(b))

RECURSIVE Digits(_)
Digits(n) == IF n < 10 THEN <<DigitChar[n + 1]>>
             ELSE Digits(n \div 10) \o <<DigitChar[(n % 10) + 1]>>

RECURSIVE ZeroPad(_, _)
ZeroPad(s, w) == IF Len(s) >= w THEN s ELSE ZeroPad(<<"0">> \o s, w)

RECURSIVE ParseInt(_)
ParseInt(s) == IF Len(s) = 1 THEN DigitVal(s[1])
               ELSE 10 * ParseInt(SubSeq(s, 1, Len(s) - 1)) + DigitVal(s[Len(s)])

FormatDay(dt) == ZeroPad(Digits(dt.y), 4) \o <<"-">> \o ZeroPad(Digits(dt.m), 2)
                 \o <<"-">> \o ZeroPad(Digits(dt.d), 2)
FormatMonth(dt) == ZeroPad(Digits(dt.y), 4) \o <<"-">> \o ZeroPad(Digits(dt.m), 2)

-----------------------------------------------------------------------------
(* The calendar *)

IsLeap(y) == (y % 4 = 0 /\ y % 100 # 0) \/ y % 400 = 0
DaysInMonth(y, m) ==
    IF m = 2 THEN (IF IsLeap(y) THEN 29 ELSE 28)
    ELSE IF m \in {4, 6, 9, 11} THEN 30 ELSE 31
NextDay(dt) ==
    IF dt.d < DaysInMonth(dt.y, dt.m) THEN [dt EXCEPT !.d = dt.d + 1]
    ELSE IF dt.m < 12 THEN [y |-> dt.y, m |-> dt.m + 1, d |-> 1]
    ELSE [y |-> dt.y + 1, m |-> 1, d |-> 1]
StartDates == {[y |-> 2024, m |-> 12, d |-> 30]}
NoDate == [y |-> 0, m |-> 0, d |-> 0]

-----------------------------------------------------------------------------
(* Datasets, destinations, the Parameter Enumerator *)

ANOM == "global_temperature_anomalies"
REGIONAL == "regional_climate_data"
PRECIP == "precipitation_data"
Pipeline == <<ANOM, REGIONAL, PRECIP>>
Datasets == {ANOM, REGIONAL, PRECIP}
\* Mutant: two destination names swapped.
Destination_Swapped(ds) ==
    IF ds = ANOM THEN "noaa_regional_climate_summaries"
    ELSE IF ds = REGIONAL THEN "noaa_global_temperature_anomalies"
    ELSE "noaa_us_precipitation"
Destination(ds) ==
    IF ds = ANOM THEN "noaa_global_temperature_anomalies"
    ELSE IF ds = REGIONAL THEN "noaa_regional_climate_summaries"
    ELSE "noaa_us_precipitation"

regions == << <<"globe", "Global">>, <<"nhem", "Northern Hemisphere">>,
              <<"shem", "Southern Hemisphere">>, <<"europe", "Europe">>,
              <<"asia", "Asia">>, <<"africa", "Africa">> >>
surface_types == << <<"land_ocean", "Land and Ocean">>, <<"land", "Land">>,
                    <<"ocean", "Ocean">> >>
periods == <<10, 30, 50>>

\* Mutant: every processor formats its period key by the day.
PeriodKey_Daily(ds, dt) == FormatDay(dt)
PeriodKey(ds, dt) == IF ds = ANOM THEN FormatDay(dt) ELSE FormatMonth(dt)

-----------------------------------------------------------------------------
(* Remote JSON: optional numbers, yearly series, responses *)

Null == <<>>
Some(x) == <<x>>

RECURSIVE Sum(_)
Sum(q) == IF q = <<>> THEN 0 ELSE Head(q) + Sum(Tail(q))
Min(q) == CHOOSE x \in {q[i] : i \in 1..Len(q)} : \A j \in 1..Len(q) : x <= q[j]
Max(q) == CHOOSE x \in {q[i] : i \in 1..Len(q)} : \A j \in 1..Len(q) : x >= q[j]
Abs(x) == IF x < 0 THEN 0 - x ELSE x

\* round(): the quotient num/den to the nearest integer, ties to even.
RoundDiv(num, den) ==
    LET q == num \div den
        r == num % den
    IN  IF 2 * r < den THEN q
        ELSE IF 2 * r > den THEN q + 1
        ELSE IF q % 2 = 0 THEN q ELSE q + 1
\* round(x, 3) of num/den thousandths, and round(x, 2), as thousandths.
Round3(num, den) == RoundDiv(num, den)
Round2(num, den) == 10 * RoundDiv(num, 10 * den)

\* A yearly series is the "data" object in document order: a sequence of
\* [key, value, anomaly] with distinct keys; an absent field is Null.
Keys(series) == {series[i].key : i \in 1..Len(series)}
Lookup(series, k) == series[CHOOSE i \in 1..Len(series) : series[i].key = k]

\* sorted() of a set of strings.
RECURSIVE sorted(_)
sorted(S) ==
    IF S = {} THEN <<>>
    ELSE LET m == CHOOSE x \in S : \A z \in S \ {x} : StrLess(x, z)
         IN  <<m>> \o sorted(S \ {m})

\* What a fetch_* function returns: None on 404, else response.json().
NoBody == [found |-> FALSE, data |-> <<>>]
Body(series) == [found |-> TRUE, data |-> series]

-----------------------------------------------------------------------------
(* regional_climate_data.calculate_trend_statistics *)

\* Mutant: the split rounds the midpoint up.
FirstHalfLen_Ceil(n) == (n + 1) \div 2
\* len(anomalies)//2
FirstHalfLen(n) == n \div 2

calculate_trend_statistics(yearly_data) ==
    IF yearly_data = <<>> THEN Null
    ELSE
    LET years == sorted(Keys(yearly_data))
        n == Len(years)
        anomalies == [i \in 1..n |->
                        LET a == Lookup(yearly_data, years[i]).anomaly
                        IN  IF a = Null THEN 0 ELSE a[1]]
        h == FirstHalfLen(n)
        first_sum == Sum(SubSeq(anomalies, 1, h))
        second_sum == Sum(SubSeq(anomalies, h + 1, n))
        \* second_half_avg > first_half_avg, cross-multiplied
        warmer == second_sum * h > first_sum * (n - h)
    IN  Some([avg_anomaly |-> Round3(Sum(anomalies), n),
              min_anomaly |-> Min(anomalies),
              max_anomaly |-> Max(anomalies),
              trend_direction |-> IF n >= 2
                                  THEN (IF warmer THEN "warming" ELSE "cooling")
                                  ELSE "stable",
              trend_magnitude |-> IF n >= 2
                                  THEN Round3(Abs(second_sum * h - first_sum * (n - h)),
                                              h * (n - h))
                                  ELSE 0,
              latest_anomaly |-> anomalies[n],
              latest_year |-> ParseInt(years[n])])

-----------------------------------------------------------------------------
(* precipitation_data: annual records (left join) and decade averages *)

AnnualRecord(p, yearly_temp) ==
    LET t == IF p.key \in Keys(yearly_temp) THEN Lookup(yearly_temp, p.key)
             ELSE [key |-> p.key, value |-> Null, anomaly |-> Null]
    IN  [year |-> ParseInt(p.key),
         region |-> "United States",
         precipitation_inches |-> p.value,
         precipitation_anomaly_inches |-> p.anomaly,
         temperature_fahrenheit |-> t.value,
         temperature_anomaly_fahrenheit |-> t.anomaly,
         data_type |-> "Annual Average"]

\* Mutant: an inner join, a year without temperature is dropped.
AnnualRecords_InnerJoin(pd, td) ==
    IF ~pd.found THEN <<>>
    ELSE LET yearly_temp == IF td.found THEN td.data ELSE <<>>
             kept == SelectSeq(pd.data, LAMBDA e : e.key \in Keys(yearly_temp))
         IN  [i \in 1..Len(kept) |-> AnnualRecord(kept[i], yearly_temp)]
AnnualRecords(pd, td) ==
    IF ~pd.found THEN <<>>
    ELSE LET yearly_precip == pd.data
             yearly_temp == IF td.found THEN td.data ELSE <<>>
         IN  [i \in 1..Len(yearly_precip) |->
                 AnnualRecord(yearly_precip[i], yearly_temp)]

DecadeOf(year) == (year \div 10) * 10

\* The keys of the decades dict, in insertion order.
RECURSIVE DecadeKeys(_)
DecadeKeys(recs) ==
    IF recs = <<>> THEN <<>>
    ELSE LET front == DecadeKeys(SubSeq(recs, 1, Len(recs) - 1))
             dec == DecadeOf(recs[Len(recs)].year)
         IN  IF \E i \in 1..Len(front) : front[i] = dec THEN front
             ELSE Append(front, dec)

RECURSIVE Present(_)
Present(q) == IF q = <<>> THEN <<>>
              ELSE IF Head(q) = Null THEN Present(Tail(q))
              ELSE <<Head(q)[1]>> \o Present(Tail(q))

InDecade(recs, dec) == SelectSeq(recs, LAMBDA r : DecadeOf(r.year) = dec)
precip_values(recs, dec) ==
    Present([i \in 1..Len(InDecade(recs, dec)) |->
                InDecade(recs, dec)[i].precipitation_inches])
temp_values(recs, dec) ==
    Present([i \in 1..Len(InDecade(recs, dec)) |->
                InDecade(recs, dec)[i].temperature_fahrenheit])

\* round(avg_temp, 2) if avg_temp else None: a mean of 0.0 is falsy.
DecadeTemperature(tv) ==
    IF tv = <<>> THEN Null
    ELSE IF Sum(tv) = 0 THEN Null
    ELSE Some(Round2(Sum(tv), Len(tv)))

DecadeRecord(recs, dec) ==
    [year |-> dec,
     region |-> "United States",
     precipitation_inches |->
         Some(Round2(Sum(precip_values(recs, dec)), Len(precip_values(recs, dec)))),
     precipitation_anomaly_inches |-> Null,
     temperature_fahrenheit |-> DecadeTemperature(temp_values(recs, dec)),
     temperature_anomaly_fahrenheit |-> Null,
     data_type |-> "Decade Average"]

RECURSIVE DecadeRecordsOf(_, _)
DecadeRecordsOf(recs, decs) ==
    IF decs = <<>> THEN <<>>
    ELSE (IF precip_values(recs, Head(decs)) # <<>>
          THEN <<DecadeRecord(recs, Head(decs))>> ELSE <<>>)
         \o DecadeRecordsOf(recs, Tail(decs))

decade_records(recs) == DecadeRecordsOf(recs, DecadeKeys(recs))

PrecipitationRecords(pd, td) ==
    LET annual == AnnualRecords(pd, td)
    IN  IF annual # <<>> THEN annual \o decade_records(annual) ELSE annual

-----------------------------------------------------------------------------
(* The remote service, as the processors see it *)

UsualSeries ==
    << [key |-> <<"2", "0", "2", "3">>, value |-> Some(52000), anomaly |-> Some(1100)],
       [key |-> <<"2", "0", "2", "4">>, value |-> Some(53000), anomaly |-> Some(1300)] >>
SparseSeries ==
    << [key |-> <<"2", "0", "2", "4">>, value |-> Null, anomaly |-> Null] >>

Ok(series) == [status |-> "ok", json |-> series]
NotFound == [status |-> "notfound", json |-> <<>>]
Failure == [status |-> "error", json |-> <<>>]

\* The remote service: the (region, surface) series it does not have (404),
\* those whose "data" object is empty, the series it returns for the others,
\* and its answers for US precipitation and US temperature.
AllPairs == {<<regions[r][1], surface_types[t][1]>> :
                r \in 1..Len(regions), t \in 1..Len(surface_types)}
Service(missing, empty, series, pcp, tavg) ==
    [missing |-> missing, empty |-> empty, series |-> series,
     pcp |-> pcp, tavg |-> tavg]
Services ==
    { Service({}, {}, UsualSeries, Ok(UsualSeries), Ok(UsualSeries)),
      Service({<<"globe", "land_ocean">>, <<"europe", "land">>},
              {<<"africa", "land">>}, UsualSeries, Ok(UsualSeries), NotFound),
      Service(AllPairs, {}, UsualSeries, NotFound, Ok(UsualSeries)),
      Service({}, {}, SparseSeries, Ok(SparseSeries), Ok(UsualSeries)) }

\* Bounded families of series, for the checks of the pure computations.
Key(y) == Digits(y)
RECURSIVE SeriesUpTo(_, _)
SeriesUpTo(entries, n) ==
    IF n = 0 THEN {<<>>}
    ELSE LET shorter == SeriesUpTo(entries, n - 1)
         IN  shorter \cup {Append(q, e) : q \in {x \in shorter : Len(x) = n - 1},
                                          e \in entries}
Distinct(q) == \A i, j \in 1..Len(q) : i # j => q[i].key # q[j].key
Family(entries, n) == {q \in SeriesUpTo(entries, n) : Distinct(q)}

TrendEntries ==
    {[key |-> Key(y), value |-> Null, anomaly |-> a] :
        y \in {1999, 2000, 2009, 2010}, a \in {Null, Some(0 - 201), Some(300)}}
TrendServices ==
    {Service(AllPairs \ {<<"africa", "land">>}, {}, q, NotFound, NotFound) :
        q \in Family(TrendEntries, MaxYears)}

PrecipEntries ==
    {[key |-> Key(y), value |-> f[1], anomaly |-> f[2]] :
        y \in {1989, 1990, 1999},
        f \in {<<Null, Null>>, <<Some(1000), Some(5)>>, <<Some(2005), Null>>}}
TempEntries ==
    {[key |-> Key(y), value |-> f[1], anomaly |-> f[2]] :
        y \in {1989, 1990, 1999},
        f \in {<<Null, Null>>, <<Some(0), Some(0 - 3)>>, <<Some(52100), Null>>}}
PrecipServices ==
    {Service(AllPairs, {}, <<>>, pcp, tavg) :
        pcp \in {NotFound} \cup {Ok(q) : q \in Family(PrecipEntries, MaxPrecipYears)},
        tavg \in {NotFound} \cup {Ok(q) : q \in Family(TempEntries, MaxTempYears)}}

GlobalAnswer(region, surface) ==
    IF <<region, surface>> \in service.missing THEN NotFound
    ELSE IF <<region, surface>> \in service.empty THEN Ok(<<>>)
    ELSE Ok(service.series)
\* The responses a call may get: the service's answer, or, when the service
\* can fail, a status that is neither success nor not-found.
Responses(answer, faults) == {answer} \cup (IF faults THEN {Failure} ELSE {})

\* fetch_temperature_data, fetch_recent_climate_data, fetch_us_*_data: the
\* value returned when the call does not raise.
fetch_result(resp) == IF resp.status = "notfound" THEN NoBody ELSE Body(resp.json)
\* Mutant: raise_for_status() is never called.
Raises_Never(resp) == FALSE
\* Mutant: raise_for_status() is called before the 404 check.
Raises_NotFoundToo(resp) == resp.status # "ok"
\* response.raise_for_status() raises.
Raises(resp) == resp.status \notin {"ok", "notfound"}

Call(region, surface, p, resp) ==
    [region |-> region, surface |-> surface, period |-> p, status |-> resp.status]

-----------------------------------------------------------------------------
(* Enumeration of the loops *)

\* Mutant: one continental region is missing from the skip rule.
Excluded_NotAfrica(region_code, surface_code) ==
    region_code \in {"europe", "asia"} /\ surface_code = "ocean"
Excluded(region_code, surface_code) ==
    region_code \in {"europe", "asia", "africa"} /\ surface_code = "ocean"

FirstCursor == [r |-> 1, s |-> 1, p |-> 1]
NextSurface(c) ==
    IF c.s < Len(surface_types) THEN [r |-> c.r, s |-> c.s + 1, p |-> 1]
    ELSE [r |-> c.r + 1, s |-> 1, p |-> 1]
NextPeriod(c) ==
    IF c.p < Len(periods) THEN [c EXCEPT !.p = c.p + 1] ELSE NextSurface(c)
InLoop(c) == c.r <= Len(regions)

-----------------------------------------------------------------------------
(* Row shaping *)

\* global_temperature_anomalies: one record per year with a non-null anomaly.
AnomalyRecords(region_name, surface_name, yearly_data) ==
    LET kept == SelectSeq(yearly_data, LAMBDA e : e.anomaly # Null)
    IN  [i \in 1..Len(kept) |->
            [year |-> ParseInt(kept[i].key),
             region |-> region_name,
             surface_type |-> surface_name,
             temperature_anomaly_celsius |-> kept[i].anomaly[1]]]

\* regional_climate_data: one summary record when stats is not None.
SummaryRecords(region_name, surface_name, p, now, yearly_data, st) ==
    IF st = Null THEN <<>>
    ELSE << [region |-> region_name,
             surface_type |-> surface_name,
             period_start |-> now.y - p,
             period_end |-> now.y,
             avg_temperature_anomaly |-> st[1].avg_anomaly,
             min_temperature_anomaly |-> st[1].min_anomaly,
             max_temperature_anomaly |-> st[1].max_anomaly,
             latest_year |-> st[1].latest_year,
             latest_anomaly |-> st[1].latest_anomaly,
             trend_direction |-> st[1].trend_direction,
             trend_magnitude_celsius |-> st[1].trend_magnitude,
             data_points |-> Len(yearly_data)] >>

-----------------------------------------------------------------------------
(* State Store and the gate *)

EmptyState == [last_update |-> None, records_processed |-> NoCount]
load_state(ds) == state[ds]
\* if last_update == today / current_month
GateClosed(lu, key) == lu = key
\* Mutant: last_update is left out of the saved mapping.
SavedState_NoKey(key, recs) == [last_update |-> None, records_processed |-> Len(recs)]
\* the mapping save_state is given
SavedState(key, recs) == [last_update |-> key, records_processed |-> Len(recs)]

-----------------------------------------------------------------------------
(* Initial states: a service, and the datasets whose processor has already  *)
(* completed in the current period (with no rows)                          *)

InitWith(S, ran) ==
    /\ service \in S
    /\ clock \in StartDates
    /\ ticks = 0
    /\ runs = 0
    /\ pc = "idle"
    /\ cur = 1
    /\ ppc = "none"
    /\ state = [ds \in Datasets |->
                  IF ds \in ran THEN SavedState(PeriodKey(ds, clock), <<>>)
                  ELSE EmptyState]
    /\ last_update = None
    /\ period = None
    /\ current_timestamp = NoDate
    /\ cursor = FirstCursor
    /\ data = NoBody
    /\ stats = Null
    /\ precip_data = NoBody
    /\ temp_data = NoBody
    /\ records = <<>>
    /\ table = Null
    /\ fetchLog = <<>>
    /\ loads = 0
    /\ saves = 0
    /\ gated = FALSE
    /\ gateAt = NoDate
    /\ returned = <<>>
    /\ stateAtStart = state
    /\ lastDone = [ds \in Datasets |-> IF ds \in ran THEN clock ELSE NoDate]
    /\ invoked = <<>>
    /\ uploads = <<>>

\* Nothing has run yet: the State Store is empty.
Init == InitWith(Services, {})

\* A processor is entered: its locals are fresh.
Enter ==
    /\ ppc' = "gate"
    /\ last_update' = None
    /\ period' = None
    /\ current_timestamp' = NoDate
    /\ cursor' = FirstCursor
    /\ data' = NoBody
    /\ stats' = Null
    /\ precip_data' = NoBody
    /\ temp_data' = NoBody
    /\ records' = <<>>
    /\ table' = Null
    /\ fetchLog' = <<>>
    /\ loads' = 0
    /\ saves' = 0
    /\ gated' = FALSE
    /\ gateAt' = NoDate
    /\ stateAtStart' = state

Running(ds, at) == pc = "process" /\ Pipeline[cur] = ds /\ ppc = at

\* The wall clock moves to the next day: between two runs of main(), or
\* while a processor is fetching.  A processor reads the clock at the gate
\* only (and for the end year of the URLs), so a day change during its
\* fetches is taken right after the gate.
Tick ==
    /\ ticks < MaxTicks
    /\ \/ pc \in {"idle", "done", "failed"}
       \/ pc = "process" /\ ppc \in {"loop", "fetch_precip"}
            /\ fetchLog = <<>> /\ cursor = FirstCursor
    /\ clock' = NextDay(clock)
    /\ ticks' = ticks + 1
    /\ UNCHANGED <<gateAt, returned, runs, pc, cur, ppc, state, last_update, period,
                   current_timestamp, cursor, data, stats, precip_data,
                   temp_data, records, table, service, fetchLog, loads, saves,
                   gated, stateAtStart, lastDone, invoked, uploads>>

\* main(): validate_environment(), then the first processor is called.
StartRun ==
    /\ pc \in {"idle", "done", "failed"}
    /\ runs < MaxRuns
    /\ runs' = runs + 1
    /\ pc' = "process"
    /\ cur' = 1
    /\ invoked' = <<Pipeline[1]>>
    /\ uploads' = <<>>
    /\ Enter
    /\ UNCHANGED <<clock, ticks, state, lastDone, service>>
    /\ returned' = <<>>

\* Mutant: the early return saves Run State as a completed invocation does.
GateHit_Saving ==
    /\ pc = "process" /\ ppc = "gate"
    /\ LET ds == Pipeline[cur]
           key == PeriodKey(ds, clock)
           lu == load_state(ds).last_update
       IN  /\ GateClosed(lu, key)
           /\ last_update' = lu
           /\ period' = key
    /\ loads' = loads + 1
    /\ gated' = TRUE
    /\ table' = Some(<<>>)
    /\ pc' = "returned"
    /\ ppc' = "none"
    /\ UNCHANGED <<clock, ticks, runs, cur, current_timestamp, cursor,
                   data, stats, precip_data, temp_data, records, service,
                   fetchLog, stateAtStart, lastDone, invoked, uploads>>
    /\ gateAt' = clock
    /\ returned' = Append(returned, 0)
    /\ state' = [state EXCEPT ![Pipeline[cur]] = SavedState(PeriodKey(Pipeline[cur], clock), <<>>)]
    /\ saves' = saves + 1

\* load_state, the period key, and the gate's early return.
GateHit ==
    /\ pc = "process" /\ ppc = "gate"
    /\ LET ds == Pipeline[cur]
           key == PeriodKey(ds, clock)
           lu == load_state(ds).last_update
       IN  /\ GateClosed(lu, key)
           /\ last_update' = lu
           /\ period' = key
    /\ loads' = loads + 1
    /\ gated' = TRUE
    /\ table' = Some(<<>>)
    /\ pc' = "returned"
    /\ ppc' = "none"
    /\ UNCHANGED <<clock, ticks, runs, cur, state, current_timestamp, cursor,
                   data, stats, precip_data, temp_data, records, service,
                   fetchLog, saves, stateAtStart, lastDone, invoked, uploads>>
    /\ gateAt' = clock
    /\ returned' = Append(returned, 0)

\* Mutant: Run State is saved as soon as the gate lets the invocation
\* through, before the fetches.
GateMiss_SavingFirst ==
    /\ pc = "process" /\ ppc = "gate"
    /\ LET ds == Pipeline[cur]
           key == PeriodKey(ds, clock)
           lu == load_state(ds).last_update
       IN  /\ ~GateClosed(lu, key)
           /\ last_update' = lu
           /\ period' = key
           /\ ppc' = IF ds = PRECIP THEN "fetch_precip" ELSE "loop"
           /\ state' = [state EXCEPT ![ds] = SavedState(key, <<>>)]
    /\ loads' = loads + 1
    /\ saves' = saves + 1
    /\ current_timestamp' = clock
    /\ records' = <<>>
    /\ cursor' = FirstCursor
    /\ UNCHANGED <<returned, clock, ticks, runs, pc, cur, data, stats,
                   precip_data, temp_data, table, service, fetchLog,
                   gated, stateAtStart, lastDone, invoked, uploads>>
    /\ gateAt' = clock

\* load_state, the period key, and the gate lets the invocation through.
GateMiss ==
    /\ pc = "process" /\ ppc = "gate"
    /\ LET ds == Pipeline[cur]
           key == PeriodKey(ds, clock)
           lu == load_state(ds).last_update
       IN  /\ ~GateClosed(lu, key)
           /\ last_update' = lu
           /\ period' = key
           /\ ppc' = IF ds = PRECIP THEN "fetch_precip" ELSE "loop"
    /\ loads' = loads + 1
    /\ current_timestamp' = clock
    /\ records' = <<>>
    /\ cursor' = FirstCursor
    /\ UNCHANGED <<returned, clock, ticks, runs, pc, cur, state, data, stats,
                   precip_data, temp_data, table, service, fetchLog, saves,
                   gated, stateAtStart, lastDone, invoked, uploads>>
    /\ gateAt' = clock

\* The exception of raise_for_status leaves the processor and main().
Raise ==
    /\ pc' = "failed"
    /\ ppc' = "none"

\* for ... for ...: continue, for a continental region's ocean series.
LoopSkip ==
    /\ pc = "process" /\ ppc = "loop" /\ Pipeline[cur] \in {ANOM, REGIONAL}
    /\ InLoop(cursor)
    /\ cursor.p = 1
    /\ Excluded(regions[cursor.r][1], surface_types[cursor.s][1])
    /\ cursor' = NextSurface(cursor)
    /\ UNCHANGED <<gateAt, returned, clock, ticks, runs, pc, cur, ppc, state, last_update,
                   period, current_timestamp, data, stats, precip_data,
                   temp_data, records, table, service, fetchLog, loads, saves,
                   gated, stateAtStart, lastDone, invoked, uploads>>

\* process_global_temperature_anomalies: one pass of the inner loop body.
AnomalyFetch(faults) ==
    /\ Running(ANOM, "loop")
    /\ InLoop(cursor)
    /\ LET region == regions[cursor.r]
           surface == surface_types[cursor.s]
       IN  /\ ~Excluded(region[1], surface[1])
           /\ \E resp \in Responses(GlobalAnswer(region[1], surface[1]), faults) :
                /\ fetchLog' = Append(fetchLog, Call(region[1], surface[1], 0, resp))
                /\ IF Raises(resp)
                   THEN /\ Raise
                        /\ UNCHANGED <<data, records, cursor>>
                   ELSE /\ data' = fetch_result(resp)
                        /\ records' =
                             IF fetch_result(resp).found
                             THEN records \o AnomalyRecords(region[2], surface[2],
                                                            fetch_result(resp).data)
                             ELSE records
                        /\ cursor' = NextSurface(cursor)
                        /\ UNCHANGED <<pc, ppc>>
    /\ UNCHANGED <<gateAt, returned, service, clock, ticks, runs, cur, state, last_update, period,
                   current_timestamp, stats, precip_data, temp_data, table,
                   loads, saves, gated, stateAtStart, lastDone, invoked,
                   uploads>>

\* process_regional_climate_data: one pass of the innermost loop body.
RegionalFetch(faults) ==
    /\ Running(REGIONAL, "loop")
    /\ InLoop(cursor)
    /\ LET region == regions[cursor.r]
           surface == surface_types[cursor.s]
           p == periods[cursor.p]
       IN  /\ ~Excluded(region[1], surface[1])
           /\ \E resp \in Responses(GlobalAnswer(region[1], surface[1]), faults) :
                /\ fetchLog' = Append(fetchLog, Call(region[1], surface[1], p, resp))
                /\ IF Raises(resp)
                   THEN /\ Raise
                        /\ UNCHANGED <<data, stats, records, cursor>>
                   ELSE /\ data' = fetch_result(resp)
                        /\ IF fetch_result(resp).found
                           THEN LET st == calculate_trend_statistics(
                                              fetch_result(resp).data)
                                IN  /\ stats' = st
                                    /\ records' = records \o
                                         SummaryRecords(region[2], surface[2], p,
                                                        current_timestamp,
                                                        fetch_result(resp).data, st)
                           ELSE UNCHANGED <<stats, records>>
                        /\ cursor' = NextPeriod(cursor)
                        /\ UNCHANGED <<pc, ppc>>
    /\ UNCHANGED <<gateAt, returned, service, clock, ticks, runs, cur, state, last_update, period,
                   current_timestamp, precip_data, temp_data, table, loads,
                   saves, gated, stateAtStart, lastDone, invoked, uploads>>

\* After the loops: save_state, build the table, return it.
LoopFinish ==
    /\ pc = "process" /\ ppc = "loop" /\ Pipeline[cur] \in {ANOM, REGIONAL}
    /\ ~InLoop(cursor)
    /\ state' = [state EXCEPT ![Pipeline[cur]] = SavedState(period, records)]
    /\ saves' = saves + 1
    /\ lastDone' = [lastDone EXCEPT ![Pipeline[cur]] = current_timestamp]
    /\ table' = Some(records)
    /\ pc' = "returned"
    /\ ppc' = "none"
    /\ UNCHANGED <<gateAt, clock, ticks, runs, cur, last_update, period,
                   current_timestamp, cursor, data, stats, precip_data,
                   temp_data, records, service, fetchLog, loads, gated,
                   stateAtStart, invoked, uploads>>
    /\ returned' = Append(returned, Len(records))

\* process_precipitation_data: fetch_us_precipitation_data().
FetchPrecipitation(faults) ==
    /\ Running(PRECIP, "fetch_precip")
    /\ \E resp \in Responses(service.pcp, faults) :
         /\ fetchLog' = Append(fetchLog, Call("110", "pcp", 0, resp))
         /\ IF Raises(resp)
            THEN /\ Raise
                 /\ UNCHANGED precip_data
            ELSE /\ precip_data' = fetch_result(resp)
                 /\ ppc' = "fetch_temp"
                 /\ UNCHANGED pc
    /\ UNCHANGED <<gateAt, returned, service, clock, ticks, runs, cur, state, last_update, period,
                   current_timestamp, cursor, data, stats, temp_data, records,
                   table, loads, saves, gated, stateAtStart, lastDone,
                   invoked, uploads>>

\* process_precipitation_data: fetch_us_temperature_data().
FetchTemperature(faults) ==
    /\ Running(PRECIP, "fetch_temp")
    /\ \E resp \in Responses(service.tavg, faults) :
         /\ fetchLog' = Append(fetchLog, Call("110", "tavg", 0, resp))
         /\ IF Raises(resp)
            THEN /\ Raise
                 /\ UNCHANGED temp_data
            ELSE /\ temp_data' = fetch_result(resp)
                 /\ ppc' = "build"
                 /\ UNCHANGED pc
    /\ UNCHANGED <<gateAt, returned, service, clock, ticks, runs, cur, state, last_update, period,
                   current_timestamp, cursor, data, stats, precip_data,
                   records, table, loads, saves, gated, stateAtStart,
                   lastDone, invoked, uploads>>

\* process_precipitation_data: annual records, decade averages, save_state,
\* the table.
PrecipitationFinish ==
    /\ Running(PRECIP, "build")
    /\ LET recs == PrecipitationRecords(precip_data, temp_data)
       IN  /\ records' = recs
           /\ state' = [state EXCEPT ![PRECIP] = SavedState(period, recs)]
           /\ table' = Some(recs)
    /\ saves' = saves + 1
    /\ lastDone' = [lastDone EXCEPT ![PRECIP] = current_timestamp]
    /\ pc' = "returned"
    /\ ppc' = "none"
    /\ UNCHANGED <<gateAt, clock, ticks, runs, cur, last_update, period,
                   current_timestamp, cursor, data, stats, precip_data,
                   temp_data, service, fetchLog, loads, gated, stateAtStart,
                   invoked, uploads>>
    /\ returned' = Append(returned, Len(PrecipitationRecords(precip_data, temp_data)))

num_rows(t) == Len(t[1])

\* main() after a processor returned: the next processor is called, or
\* main() returns.
Proceed ==
    IF cur < Len(Pipeline)
    THEN /\ cur' = cur + 1
         /\ pc' = "process"
         /\ invoked' = Append(invoked, Pipeline[cur + 1])
         /\ Enter
    ELSE /\ pc' = "done"
         /\ UNCHANGED <<cur, invoked, ppc, last_update, period,
                        current_timestamp, cursor, data, stats, precip_data,
                        temp_data, records, table, fetchLog, loads,
                        saves, gated, gateAt, stateAtStart>>

UploadCall(ok) ==
    [name |-> Destination(Pipeline[cur]), rows |-> num_rows(table), ok |-> ok]

\* if table.num_rows > 0: upload_data(table, name) returns.
Upload ==
    /\ pc = "returned"
    /\ num_rows(table) > 0
    /\ uploads' = Append(uploads, UploadCall(TRUE))
    /\ Proceed
    /\ UNCHANGED <<returned, clock, ticks, runs, state, lastDone, service>>

\* Mutant: a failed upload puts the dataset's Run State back to what it was
\* when the processor was called.
UploadFails_Rollback ==
    /\ pc = "returned"
    /\ num_rows(table) > 0
    /\ uploads' = Append(uploads, UploadCall(FALSE))
    /\ pc' = "failed"
    /\ state' = [state EXCEPT ![Pipeline[cur]] = stateAtStart[Pipeline[cur]]]
    /\ UNCHANGED <<gateAt, returned, clock, ticks, runs, cur, ppc, last_update, period,
                   current_timestamp, cursor, data, stats, precip_data,
                   temp_data, records, table, service, fetchLog, loads, saves,
                   gated, stateAtStart, lastDone, invoked>>

\* if table.num_rows > 0: upload_data(table, name) raises.
UploadFails ==
    /\ pc = "returned"
    /\ num_rows(table) > 0
    /\ uploads' = Append(uploads, UploadCall(FALSE))
    /\ pc' = "failed"
    /\ UNCHANGED <<gateAt, returned, clock, ticks, runs, cur, ppc, state, last_update, period,
                   current_timestamp, cursor, data, stats, precip_data,
                   temp_data, records, table, service, fetchLog, loads, saves,
                   gated, stateAtStart, lastDone, invoked>>

\* The table is empty: no upload.
NoUpload ==
    /\ pc = "returned"
    /\ ~(num_rows(table) > 0)
    /\ Proceed
    /\ UNCHANGED <<returned, clock, ticks, runs, state, lastDone, uploads, service>>

Next ==
    \/ Tick
    \/ StartRun
    \/ GateHit
    \/ GateMiss
    \/ LoopSkip
    \/ AnomalyFetch(TRUE)
    \/ RegionalFetch(TRUE)
    \/ LoopFinish
    \/ FetchPrecipitation(TRUE)
    \/ FetchTemperature(TRUE)
    \/ PrecipitationFinish
    \/ Upload
    \/ UploadFails
    \/ NoUpload

Spec == Init /\ [][Next]_vars

\* One run of main() from an empty State Store, the service holding any
\* series of the bounded family and answering every call: the trend
\* statistics of every such series are computed.
InitTrend == InitWith(TrendServices, {})
NextTrend ==
    \/ StartRun
    \/ GateMiss
    \/ LoopSkip
    \/ AnomalyFetch(FALSE)
    \/ RegionalFetch(FALSE)
    \/ LoopFinish
    \/ Upload
    \/ NoUpload
SpecTrend == InitTrend /\ [][NextTrend]_vars

\* Runs of main() on a day the first two processors have already completed,
\* the service holding any precipitation and temperature series of the
\* bounded families: the precipitation records of every pair are built.
InitPrecip == InitWith(PrecipServices, {ANOM, REGIONAL})
NextPrecip ==
    \/ StartRun
    \/ GateHit
    \/ GateMiss
    \/ FetchPrecipitation(FALSE)
    \/ FetchTemperature(FALSE)
    \/ PrecipitationFinish
    \/ Upload
    \/ NoUpload
SpecPrecip == InitPrecip /\ [][NextPrecip]_vars

-----------------------------------------------------------------------------
(* Properties *)

Current == Pipeline[cur]
\* The processor main() last called has returned its table.
Returned == table # Null
\* The processor main() last called evaluated its gate.
PastGate == loads > 0
\* The processor main() last called was left by an exception of a fetch.
Aborted == pc = "failed" /\ table = Null
SamePeriod(ds, a, b) ==
    IF ds = "global_temperature_anomalies" THEN a = b
    ELSE a.y = b.y /\ a.m = b.m
LastCall == fetchLog[Len(fetchLog)]

\* C1: once an invocation of a processor has completed and saved Run State,
\* an invocation of the same processor whose gate is evaluated in the same
\* period (day for the anomalies, month for the other two) takes the early
\* return: it returns an empty table, makes no remote call and does not
\* write Run State.
C1_GateIdempotent ==
    PastGate =>
      /\ (saves = 0 /\ lastDone[Current] # NoDate
            /\ SamePeriod(Current, lastDone[Current], gateAt)) => gated
      /\ gated => /\ table = Some(<<>>)
                  /\ fetchLog = <<>>
                  /\ saves = 0
                  /\ state = stateAtStart
C1_Witness ==
    /\ gated /\ pc = "returned"
    /\ lastDone[Current] # NoDate
    /\ SamePeriod(Current, lastDone[Current], gateAt)

\* C2 as stated: a returned invocation has called the State Store exactly
\* twice, unless the gate short-circuited it, and then it has made no
\* external call at all, State Store included.
C2_Original ==
    Returned =>
      IF gated THEN loads + saves = 0 /\ fetchLog = <<>>
      ELSE loads = 1 /\ saves = 1
\* C2 amended: a returned invocation has called the State Store exactly
\* twice (one read, one write); one short-circuited by the gate has made
\* exactly one external call, the State Store read of the gate, no write and
\* no remote call; an invocation left by a failed fetch has read once and
\* not written.
C2_StoreCalls ==
    /\ Returned =>
         IF gated THEN loads = 1 /\ saves = 0 /\ fetchLog = <<>>
         ELSE loads = 1 /\ saves = 1
    /\ Aborted => loads = 1 /\ saves = 0
    /\ loads <= 1 /\ saves <= loads
C2_Witness == Returned /\ gated /\ loads = 1 /\ runs = 2

\* C3: when a remote call answers with a status that is neither success nor
\* not-found, the invocation is left at once and so is main(): no table is
\* returned, nothing is uploaded for that dataset, no later processor is
\* invoked, and the uploads made before stay as they are.
C3_HardFailure ==
    (fetchLog # <<>> /\ LastCall.status = "error") =>
      /\ pc = "failed" /\ ppc = "none"
      /\ table = Null
      /\ Len(returned) = cur - 1
      /\ invoked = SubSeq(Pipeline, 1, cur)
      /\ \A i \in 1..Len(uploads) :
           /\ uploads[i].ok
           /\ \E k \in 1..(cur - 1) :
                /\ uploads[i].name = Destination(Pipeline[k])
                /\ uploads[i].rows = returned[k]
      /\ \A k \in 1..(cur - 1) :
           returned[k] > 0 =>
             \E i \in 1..Len(uploads) : uploads[i].name = Destination(Pipeline[k])
C3_Witness ==
    /\ fetchLog # <<>> /\ LastCall.status = "error"
    /\ pc = "failed" /\ cur = 2 /\ Len(uploads) = 1 /\ Len(fetchLog) > 1

RegionName(code) == (CHOOSE r \in {regions[i] : i \in 1..Len(regions)} : r[1] = code)[2]
SurfaceName(code) ==
    (CHOOSE t \in {surface_types[i] : i \in 1..Len(surface_types)} : t[1] = code)[2]
RecordsOf(call) ==
    LET region_name == RegionName(call.region)
        surface_name == SurfaceName(call.surface)
    IN  {i \in 1..Len(records) :
            /\ records[i].region = region_name
            /\ records[i].surface_type = surface_name
            /\ Current = "regional_climate_data" =>
                 records[i].period_end - records[i].period_start = call.period}
HasData(call) ==
    LET series == GlobalAnswer(call.region, call.surface).json
    IN  IF Current = "global_temperature_anomalies"
        THEN \E i \in 1..Len(series) : series[i].anomaly # Null
        ELSE series # <<>>

\* C4: a not-found answer is not an error.  Its combination is skipped and
\* not asked again, every other combination of the run is still fetched and,
\* where it has data, emitted, and the run completes and writes Run State.
C4_NotFoundSkipped ==
    /\ Aborted => LastCall.status = "error"
    /\ \A i, j \in 1..Len(fetchLog) :
         (fetchLog[i].status = "notfound" /\ i # j) =>
           [fetchLog[i] EXCEPT !.status = "x"] # [fetchLog[j] EXCEPT !.status = "x"]
    /\ (Current \in {"global_temperature_anomalies", "regional_climate_data"}
          /\ PastGate /\ ~gated) =>
         /\ \A i \in 1..Len(fetchLog) :
              /\ fetchLog[i].status = "notfound" => RecordsOf(fetchLog[i]) = {}
              /\ (fetchLog[i].status = "ok" /\ HasData(fetchLog[i]))
                    => RecordsOf(fetchLog[i]) # {}
         /\ ((\A i \in 1..Len(fetchLog) : fetchLog[i].status # "error")
               /\ pc # "process") =>
              /\ Returned
              /\ Len(fetchLog) =
                   IF Current = "regional_climate_data" THEN 45 ELSE 15
              /\ saves = 1
              /\ state[Current].last_update = period
C4_Witness ==
    /\ Current = "regional_climate_data" /\ Returned /\ ~gated
    /\ \E i \in 1..Len(fetchLog) : fetchLog[i].status = "notfound"
    /\ fetchLog[1].status = "notfound"
    /\ records # <<>>

IsDigits(q) == \A i \in 1..Len(q) : \E n \in 0..9 : DigitChar[n + 1] = q[i]
IsDayString(q) ==
    /\ Len(q) = 10 /\ q[5] = "-" /\ q[8] = "-"
    /\ IsDigits(SubSeq(q, 1, 4)) /\ IsDigits(SubSeq(q, 6, 7))
    /\ IsDigits(SubSeq(q, 9, 10))
IsMonthString(q) ==
    /\ Len(q) = 7 /\ q[5] = "-"
    /\ IsDigits(SubSeq(q, 1, 4)) /\ IsDigits(SubSeq(q, 6, 7))
IsPeriodString(ds, q) ==
    IF ds = "global_temperature_anomalies" THEN IsDayString(q) ELSE IsMonthString(q)
\* The date a period string names (day 1 for a month string).
DateOf(q) ==
    [y |-> ParseInt(SubSeq(q, 1, 4)), m |-> ParseInt(SubSeq(q, 6, 7)),
     d |-> IF Len(q) = 10 THEN ParseInt(SubSeq(q, 9, 10)) ELSE 1]
NotLater(a, b) ==
    \/ a.y < b.y
    \/ a.y = b.y /\ a.m < b.m
    \/ a.y = b.y /\ a.m = b.m /\ a.d <= b.d

\* C5: the persisted last_update is a day string for the anomalies and a
\* month string for the other two datasets; a write stores the period key
\* the gate of that invocation compared against, and never replaces
\* last_update by the key of an earlier period.
C5_LastUpdateAdvances ==
    \A ds \in Datasets :
      LET old == stateAtStart[ds].last_update
          new == state[ds].last_update
      IN  /\ new # None => IsPeriodString(ds, new)
          /\ state[ds] # stateAtStart[ds] =>
               /\ new = period
               /\ IsPeriodString(ds, new)
               /\ SamePeriod(ds, DateOf(new),
                             IF ds = "global_temperature_anomalies" THEN gateAt
                             ELSE [gateAt EXCEPT !.d = 1])
               /\ old # None => NotLater(DateOf(old), DateOf(new))
C5_Witness ==
    \E ds \in {"regional_climate_data", "precipitation_data"} :
      /\ stateAtStart[ds].last_update # None
      /\ state[ds].last_update # stateAtStart[ds].last_update

ExpectedOrder ==
    <<"global_temperature_anomalies", "regional_climate_data", "precipitation_data">>
ExpectedName ==
    <<"noaa_global_temperature_anomalies", "noaa_regional_climate_summaries",
      "noaa_us_precipitation">>
\* main() is past the "if num_rows > 0" of the k-th processor of this run.
Decided(k) ==
    \/ k < Len(invoked)
    \/ k = Len(invoked) /\ (pc = "done" \/ (pc = "failed" /\ Returned))

\* C6: in a run of main() the processors are invoked one at a time in the
\* order anomalies, regional trends, precipitation, each at most once; a
\* dataset is uploaded only after its processor returned, only under its
\* own destination name, and exactly when the returned table has a row.
C6_OrchestratorOrder ==
    /\ Len(invoked) <= 3
    /\ invoked = SubSeq(ExpectedOrder, 1, Len(invoked))
    /\ Len(returned) \in {Len(invoked) - 1, Len(invoked)}
    /\ (pc = "process" /\ runs > 0) => Len(returned) = Len(invoked) - 1
    /\ \A k \in 1..Len(returned) :
         Decided(k) =>
           (returned[k] > 0 <=>
              \E i \in 1..Len(uploads) : uploads[i].name = ExpectedName[k])
    /\ \A i \in 1..Len(uploads) :
         /\ \E k \in 1..Len(returned) :
              /\ uploads[i].name = ExpectedName[k]
              /\ uploads[i].rows = returned[k]
              /\ returned[k] > 0
         /\ \A j \in 1..Len(uploads) :
              (i < j) =>
                \E k, l \in 1..3 : /\ k < l
                                   /\ uploads[i].name = ExpectedName[k]
                                   /\ uploads[j].name = ExpectedName[l]
C6_Witness ==
    /\ pc = "done" /\ Len(uploads) = 2
    /\ \E k \in 1..3 : returned[k] = 0

Continental == {"europe", "asia", "africa"}
ExpectedPairs ==
    {<<r, t>> : r \in {"globe", "nhem", "shem", "europe", "asia", "africa"},
                t \in {"land_ocean", "land", "ocean"}}
    \ {<<r, "ocean">> : r \in Continental}

\* C7: the anomaly and the trend processor make no remote call and emit no
\* record for Europe, Asia or Africa with the ocean surface; no combination
\* is queried twice, and a run that is not short-circuited and runs to its
\* end has queried every other region x surface (x period 10, 30, 50 for
\* the trends) combination exactly once.
C7_EnumeratorExclusion ==
    (Current \in {"global_temperature_anomalies", "regional_climate_data"}) =>
      /\ \A i \in 1..Len(fetchLog) :
           ~(fetchLog[i].region \in Continental /\ fetchLog[i].surface = "ocean")
      /\ \A i \in 1..Len(records) :
           ~(records[i].region \in {"Europe", "Asia", "Africa"}
               /\ records[i].surface_type = "Ocean")
      /\ Cardinality({<<fetchLog[i].region, fetchLog[i].surface, fetchLog[i].period>> :
                         i \in 1..Len(fetchLog)}) = Len(fetchLog)
      /\ (Returned /\ ~gated) =>
           {<<fetchLog[i].region, fetchLog[i].surface, fetchLog[i].period>> :
               i \in 1..Len(fetchLog)}
           = IF Current = "regional_climate_data"
             THEN {<<c[1], c[2], p>> : c \in ExpectedPairs, p \in {10, 30, 50}}
             ELSE {<<c[1], c[2], 0>> : c \in ExpectedPairs}
C7_Witness ==
    /\ Current = "regional_climate_data" /\ Returned /\ ~gated
    /\ Len(fetchLog) = 45 /\ Len(records) = 45

\* Claim-side arithmetic: the values of a bucket, and "x is num/den rounded
\* to a multiple of unit" (a tie may go either way).
RECURSIVE Total(_)
Total(q) == IF q = <<>> THEN 0 ELSE q[1] + Total(Tail(q))
RECURSIVE NonNull(_)
NonNull(q) == IF q = <<>> THEN <<>>
              ELSE IF q[1] = <<>> THEN NonNull(Tail(q))
              ELSE <<q[1][1]>> \o NonNull(Tail(q))
IsRounded(x, num, den, unit) ==
    /\ x % unit = 0
    /\ (IF x * den >= num THEN x * den - num ELSE num - x * den) * 2 <= unit * den

PrecipRun == Current = "precipitation_data" /\ Returned /\ ~gated
Annual == SelectSeq(records, LAMBDA r : r.data_type = "Annual Average")
Decadal == SelectSeq(records, LAMBDA r : r.data_type = "Decade Average")
Bucket(dec) == SelectSeq(Annual, LAMBDA r : (r.year \div 10) * 10 = dec)
BucketPrecip(dec) ==
    NonNull([i \in 1..Len(Bucket(dec)) |-> Bucket(dec)[i].precipitation_inches])
BucketTemp(dec) ==
    NonNull([i \in 1..Len(Bucket(dec)) |-> Bucket(dec)[i].temperature_fahrenheit])
DecadeRows(dec) == {i \in 1..Len(Decadal) : Decadal[i].year = dec}
Buckets == {(Annual[i].year \div 10) * 10 : i \in 1..Len(Annual)}

\* The part of C8 about precipitation: one decade record per bucket that has
\* a precipitation value, carrying the rounded mean of the bucket's
\* precipitation values and null anomalies; no other decade record.
DecadePrecipitationOk ==
    PrecipRun =>
      /\ \A dec \in Buckets :
           IF BucketPrecip(dec) = <<>> THEN DecadeRows(dec) = {}
           ELSE /\ Cardinality(DecadeRows(dec)) = 1
                /\ \A i \in DecadeRows(dec) :
                     /\ Decadal[i].precipitation_inches # Null
                     /\ IsRounded(Decadal[i].precipitation_inches[1],
                                  Total(BucketPrecip(dec)), Len(BucketPrecip(dec)), 10)
                     /\ Decadal[i].precipitation_anomaly_inches = Null
                     /\ Decadal[i].temperature_anomaly_fahrenheit = Null
      /\ \A i \in 1..Len(Decadal) : Decadal[i].year \in Buckets

\* C8: annual records are grouped by (year // 10) * 10; each bucket with a
\* precipitation value gets exactly one "Decade Average" record with the
\* mean of its precipitation values and, whenever the bucket has a
\* temperature value, the mean of its temperature values (null only when it
\* has none); both anomaly fields are null, and a bucket without
\* precipitation value gets no decade record.
C8_DecadeAggregation ==
    /\ DecadePrecipitationOk
    /\ PrecipRun =>
         \A dec \in Buckets : \A i \in DecadeRows(dec) :
            IF BucketTemp(dec) = <<>> THEN Decadal[i].temperature_fahrenheit = Null
            ELSE /\ Decadal[i].temperature_fahrenheit # Null
                 /\ IsRounded(Decadal[i].temperature_fahrenheit[1],
                              Total(BucketTemp(dec)), Len(BucketTemp(dec)), 10)

\* The anomalies of a series by ascending year, a missing anomaly as 0.
RECURSIVE Chronological(_)
Chronological(S) ==
    IF S = {} THEN <<>>
    ELSE LET e == CHOOSE x \in S : \A z \in S : ParseInt(x.key) <= ParseInt(z.key)
         IN  <<IF e.anomaly = <<>> THEN 0 ELSE e.anomaly[1]>>
             \o Chronological(S \ {e})

YearsOf(series) == {ParseInt(series[i].key) : i \in 1..Len(series)}

\* C10: exactly one annual record per year of the precipitation series; a
\* year the temperature series lacks (or any year, when the temperature
\* series is not found) keeps its precipitation fields, non-null wherever
\* the precipitation entry carries them, with both temperature fields null;
\* a year of the temperature series alone gets no record.
C10_LeftJoin ==
    PrecipRun =>
      LET P == IF precip_data.found THEN precip_data.data ELSE <<>>
          T == IF temp_data.found THEN temp_data.data ELSE <<>>
      IN  /\ Len(Annual) = Len(P)
          /\ \A i \in 1..Len(P) :
               LET rows == {j \in 1..Len(Annual) :
                               Annual[j].year = ParseInt(P[i].key)}
               IN  /\ Cardinality(rows) = 1
                   /\ \A j \in rows :
                        /\ Annual[j].precipitation_inches = P[i].value
                        /\ Annual[j].precipitation_anomaly_inches = P[i].anomaly
                        /\ P[i].value # <<>> => Annual[j].precipitation_inches # Null
                        /\ ParseInt(P[i].key) \notin YearsOf(T) =>
                             /\ Annual[j].temperature_fahrenheit = Null
                             /\ Annual[j].temperature_anomaly_fahrenheit = Null
          /\ \A y \in YearsOf(T) \ YearsOf(P) :
               \A j \in 1..Len(Annual) : Annual[j].year # y
C10_Witness ==
    /\ PrecipRun /\ precip_data.found /\ temp_data.found
    /\ Len(precip_data.data) = 2 /\ Len(temp_data.data) = 1
    /\ precip_data.data[1].key = temp_data.data[1].key
    /\ temp_data.data[1].value # Null
    /\ precip_data.data[2].value # Null
    /\ Len(Annual) = 2

\* C11: an invocation left by a failed remote call leaves the Run State of
\* its dataset exactly as it was when the invocation started (save_state
\* comes after the last fetch); the gate closes only on a completed
\* invocation of the same period, so a later invocation in the period of an
\* aborted one is let through and fetches again; an invocation never
\* touches the Run State of the other two datasets.
C11_AbortKeepsRunState ==
    /\ Aborted => /\ fetchLog # <<>> /\ LastCall.status = "error"
                  /\ state[Current] = stateAtStart[Current]
                  /\ saves = 0
    /\ (PastGate /\ ~Returned) => state[Current] = stateAtStart[Current]
    /\ (PastGate /\ gated) =>
         /\ lastDone[Current] # NoDate
         /\ SamePeriod(Current, lastDone[Current], gateAt)
    /\ (PastGate /\ ~gated /\ (Returned \/ pc = "failed")) => fetchLog # <<>>
    /\ \A ds \in Datasets \ {Current} : state[ds] = stateAtStart[ds]
\* The second run of main() on the day the first one was aborted in the
\* first processor: the gate let it through and it has fetched again.
C11_Witness ==
    /\ runs = 2 /\ ticks = 0 /\ cur = 1
    /\ lastDone[Current] = NoDate
    /\ state[Current] = EmptyState
    /\ PastGate /\ ~gated
    /\ fetchLog # <<>> /\ LastCall.status = "ok"

\* The dataset main() uploads under a destination name.
DatasetOf(name) == CHOOSE ds \in Datasets : Destination(ds) = name

\* C12: in a run of main() the Run State of a dataset is written before its
\* table is offered to the sink, and the write stays whether the upload
\* succeeds or fails and whatever fails later in the run; last_update of a
\* dataset is set only by a completed invocation of its processor, so it can
\* equal the current period only after one completed in that period,
\* whether or not the table reached the sink.
C12_WriteBeforeUpload ==
    /\ (pc = "returned" /\ ~gated) =>
         /\ saves = 1
         /\ state[Current] = SavedState(period, table[1])
    /\ \A i \in 1..Len(uploads) :
         LET ds == DatasetOf(uploads[i].name)
         IN  /\ state[ds].last_update = PeriodKey(ds, lastDone[ds])
             /\ state[ds].records_processed = uploads[i].rows
    /\ (pc = "failed" /\ Returned) =>
         /\ uploads # <<>> /\ ~uploads[Len(uploads)].ok
         /\ state[Current] = SavedState(period, table[1])
         /\ state[Current] # stateAtStart[Current]
    /\ \A ds \in Datasets :
         /\ state[ds].last_update # None =>
              /\ lastDone[ds] # NoDate
              /\ state[ds].last_update = PeriodKey(ds, lastDone[ds])
         /\ state[ds].last_update = PeriodKey(ds, clock) =>
              /\ lastDone[ds] # NoDate
              /\ SamePeriod(ds, lastDone[ds], clock)
\* The upload of the second dataset failed after the first one was
\* uploaded: both Run States carry the period of this run.
C12_Witness ==
    /\ pc = "failed" /\ Returned /\ cur = 2
    /\ Len(uploads) = 2 /\ uploads[1].ok /\ ~uploads[2].ok
    /\ \A k \in 1..2 :
         /\ state[Pipeline[k]].last_update = PeriodKey(Pipeline[k], clock)
         /\ state[Pipeline[k]].records_processed = uploads[k].rows

====
